---- MODULE Spec2Model ----
(***************************************************************************)
(* Model of scripts/scrape_data.py (FPLDataScraper): the snapshot builder, *)
(* the cumulative-to-discrete delta engine, the element-summary backfill,  *)
(* the last-completed-gameweek selection and run(), the orchestrator that  *)
(* writes the CSV files.                                                   *)
(*                                                                         *)
(* Cells.  A table cell or a JSON value is a record [k, v]:                *)
(*   Num(n)    a number n                                                  *)
(*   StrOf(n)  integer text: parses as the number n, also with int()      *)
(*             ("2")                                                       *)
(*   StrFloat(n) decimal text: pd.to_numeric gives n, int() raises         *)
(*             ("2.0")                                                     *)
(*   TXT       text that is not a number                                   *)
(*   NA        None / NaN / pd.NA / an empty CSV cell                      *)
(* Numbers are integers here: the code's floats are only added,            *)
(* subtracted and compared.                                                *)
(*                                                                         *)
(* Tables.  A DataFrame is [cols |-> set of column names,                  *)
(* rows |-> sequence of functions from cols to cells].  A raw JSON object  *)
(* is a function from the keys it has to cells, so a missing key is a key  *)
(* outside its DOMAIN.                                                     *)
(***************************************************************************)
EXTENDS Integers, Sequences, FiniteSets, TLC

VARIABLES
    pc,             \* "input": arguments drawn, "done": function returned,
                    \* "idle": between runs, "loop"/"backfilling": in the
                    \* backfill loop between two requests, "request"/
                    \* "requesting": inside a request, "interrupted": left
                    \* by an interrupt
    bootstrap,      \* the bootstrap-static payload [events, teams, elements]
    summary,        \* the element-summary endpoint: [entries]
    backfill,       \* self.backfill
    last_gw,        \* run()/argument: the gameweek
    current_snap,   \* run(): current_snap / argument of compute_discrete_gameweek_stats
    prev_snap,      \* run(): prev_snap / argument of compute_discrete_gameweek_stats
    discrete,       \* the discrete table returned / written
    teams_csv,      \* output_dir/teams.csv
    players_csv,    \* output_dir/players.csv
    cumulative_csv, \* gw |-> output_dir/playerstats_cumulative_GW{gw}.csv
    discrete_csv,   \* gw |-> output_dir/player_gameweek_stats_GW{gw}.csv
    last_gw_csv,    \* output_dir/player_gameweek_stats_last_gw.csv
    runs,           \* number of run() calls so far
    path,           \* how the last run() ended ("running" while it runs)
    requests,       \* element-summary requests issued by the last run()
    todo,           \* backfill: the ids the loop has not visited yet
    results,        \* backfill: results, pid |-> agg
    answers         \* backfill: per request so far, [pid, raised]

vars == <<pc, bootstrap, summary, backfill, last_gw, current_snap, prev_snap,
          discrete, teams_csv, players_csv, cumulative_csv, discrete_csv,
          last_gw_csv, runs, path, requests, todo, results, answers>>

\* the state of the backfill loop
loop == <<todo, results, answers>>

files == <<teams_csv, players_csv, cumulative_csv, discrete_csv, last_gw_csv>>

----------------------------------------------------------------------------
(* Bounds of the model *)

MaxVal == 2      \* cumulative values range over -1..MaxVal
MaxRows == 2     \* rows of a drawn table / records of a drawn payload
MaxHist == 2     \* match-history entries held by the element-summary endpoint
MaxEvents == 3   \* rounds of a drawn schedule
MaxGW == 2       \* gameweek ids range over 1..MaxGW
MaxRuns == 2     \* run() calls in one behaviour

PlayerIds == {1, 2}

----------------------------------------------------------------------------
(* Cells *)

Num(n) == [k |-> "num", v |-> n]
StrOf(n) == [k |-> "str", v |-> n]
StrFloat(n) == [k |-> "fstr", v |-> n]
TXT == [k |-> "txt", v |-> 0]
NA == [k |-> "na", v |-> 0]

\* pd.to_numeric(x, errors="coerce"): numbers and numeric text become numbers,
\* everything else NaN.
pd_to_numeric(x) ==
    IF x.k \in {"num", "str", "fstr"} THEN Num(x.v) ELSE NA

fillna(x, default) == IF x = NA THEN Num(default) ELSE x

\* _to_numeric_series, cell by cell.
_to_numeric_series(x, default) == fillna(pd_to_numeric(x), default)

----------------------------------------------------------------------------
(* Column lists: a representative of each kind of column the code treats   *)
(* differently.                                                            *)

ID_COLS == {"id", "web_name"}
SNAPSHOT_COLS == {"status", "now_cost"}
CUMULATIVE_COLS == {"total_points", "minutes", "goals_scored"}
numeric_like_snapshot == {"now_cost"}
hist_fields == {"minutes", "goals_scored"}

wanted == ID_COLS \cup {"gw"} \cup SNAPSHOT_COLS \cup CUMULATIVE_COLS
out_cols == ID_COLS \cup {"gw"} \cup SNAPSHOT_COLS \cup CUMULATIVE_COLS

----------------------------------------------------------------------------
(* DataFrames *)

EmptyDF == [cols |-> {}, rows |-> <<>>]

\* pd.DataFrame(list of dicts): the columns are the union of the keys, a key a
\* record lacks is NaN in its row.
DataFrame(records) ==
    LET cs == UNION {DOMAIN records[j] : j \in 1..Len(records)}
    IN [cols |-> cs,
        rows |-> [j \in 1..Len(records) |->
                    [c \in cs |-> IF c \in DOMAIN records[j]
                                  THEN records[j][c] ELSE NA]]]

\* DataFrame.empty: any axis of length 0.
empty(df) == df.cols = {} \/ Len(df.rows) = 0

\* df["gw"] = gw
SetGw(df, gw) ==
    [cols |-> df.cols \cup {"gw"},
     rows |-> [j \in 1..Len(df.rows) |->
                 [d \in df.cols \cup {"gw"} |->
                    IF d = "gw" THEN Num(gw) ELSE df.rows[j][d]]]]

AddMissing(df, cols) ==
    [cols |-> df.cols \cup cols,
     rows |-> [j \in 1..Len(df.rows) |->
                 [c \in df.cols \cup cols |->
                    IF c \in df.cols THEN df.rows[j][c] ELSE NA]]]

\* _ensure_columns without the columns the table lacks
_ensure_columns_present_only(df, cols) ==
    [cols |-> cols \cap df.cols,
     rows |-> [j \in 1..Len(df.rows) |->
                 [c \in cols \cap df.cols |-> df.rows[j][c]]]]

\* _ensure_columns: missing columns are added as NA, then df[cols].
_ensure_columns(df, cols) ==
    [cols |-> cols,
     rows |-> [j \in 1..Len(df.rows) |->
                 [c \in cols |-> AddMissing(df, cols).rows[j][c]]]]

\* to_csv then read_csv of a whole table: numbers are written and read back,
\* NA is an empty cell read back as NaN.
to_csv(df) == [exists |-> TRUE, data |-> df]
read_csv(f) == f.data
NoFile == [exists |-> FALSE, data |-> EmptyDF]

----------------------------------------------------------------------------
(* get_last_completed_gameweek *)

RECURSIVE LastCompleted(_, _)
\* The loop over bootstrap["events"]: last_gw is overwritten by every event
\* that is finished and data_checked (None is 0 here: "last_gw or 1" treats
\* both alike).
LastCompleted(events, acc) ==
    IF events = <<>> THEN acc
    ELSE LastCompleted(Tail(events),
                       IF Head(events).finished /\ Head(events).data_checked
                       THEN Head(events).id ELSE acc)

get_last_completed_gameweek(b) ==
    LET l == LastCompleted(b.events, 0) IN IF l = 0 THEN 1 ELSE l

----------------------------------------------------------------------------
(* build_cumulative_playerstats_snapshot *)

\* for col in CUMULATIVE_COLS: snap[col] = _to_numeric_series(snap[col], 0.0)
CoerceCumulative(df) ==
    [cols |-> df.cols,
     rows |-> [j \in 1..Len(df.rows) |->
                 [c \in df.cols |->
                    IF c \in CUMULATIVE_COLS
                    THEN _to_numeric_series(df.rows[j][c], 0)
                    ELSE df.rows[j][c]]]]

\* for col in numeric_like_snapshot: snap[col] = pd.to_numeric(snap[col], "coerce")
CoerceNumericLike(df) ==
    [cols |-> df.cols,
     rows |-> [j \in 1..Len(df.rows) |->
                 [c \in df.cols |->
                    IF c \in numeric_like_snapshot
                    THEN pd_to_numeric(df.rows[j][c])
                    ELSE df.rows[j][c]]]]

build_cumulative_playerstats_snapshot(b, gw) ==
    LET elements_df == DataFrame(b.elements)
    IN IF empty(elements_df) THEN EmptyDF
       ELSE CoerceNumericLike(
                CoerceCumulative(
                    _ensure_columns(SetGw(elements_df, gw), wanted)))

----------------------------------------------------------------------------
(* compute_discrete_gameweek_stats *)

\* prev_snapshot[["id"] + [c for c in CUMULATIVE_COLS if c in prev.columns]]
prev_small(prev) ==
    LET pc_ == {"id"} \cup (CUMULATIVE_COLS \cap prev.cols)
    IN [cols |-> pc_,
        rows |-> [j \in 1..Len(prev.rows) |-> [c \in pc_ |-> prev.rows[j][c]]]]

RECURSIVE Concat(_)
Concat(ss) == IF ss = <<>> THEN <<>> ELSE Head(ss) \o Concat(Tail(ss))

SameId(p, r) == p["id"] = r["id"]

\* The rows of the right table a left row is joined with, in the right
\* table's order; a left row without a match is joined once, with NaN.
Matches(r, right) ==
    LET idx == {j \in 1..Len(right.rows) : SameId(right.rows[j], r)}
        sel == SelectSeq(right.rows, LAMBDA p : SameId(p, r))
    IN IF idx = {} THEN << [c \in right.cols \ {"id"} |-> NA] >>
       ELSE [j \in 1..Len(sel) |-> [c \in right.cols \ {"id"} |-> sel[j][c]]]

\* current.merge(prev_small, on="id", how="left", suffixes=("", "_prev")):
\* one merged row [left, right] per match, in the order of the left table.
merge_left(current, right) ==
    Concat([j \in 1..Len(current.rows) |->
              LET m == Matches(current.rows[j], right)
              IN [n \in 1..Len(m) |-> [left |-> current.rows[j], right |-> m[n]]]])

\* where_diff with the operands of the difference swapped
where_diff_prevminus(cur, prev) == IF prev - cur >= 0 THEN prev - cur ELSE cur

\* where_diff without the correction of a negative difference
where_diff_nocorrection(cur, prev) == cur - prev

\* diff.where(diff >= 0, merged[col]) with diff = cur - prev
where_diff(cur, prev) == IF cur - prev >= 0 THEN cur - prev ELSE cur

\* merged[col] before the loop body: the current table's column, or the
\* previous table's (unsuffixed) when only that one has it.
merged_col(m, col) ==
    IF col \in DOMAIN m.left THEN m.left[col] ELSE m.right[col]

\* merged[col + "_prev"]: there only when both tables have the column;
\* otherwise the loop sets it to 0.0.
merged_prev_col(m, col) ==
    IF col \in DOMAIN m.left /\ col \in DOMAIN m.right THEN m.right[col]
    ELSE Num(0)

\* One pass of the loop over CUMULATIVE_COLS, for one merged row.
discrete_cell(m, col) ==
    Num(where_diff(_to_numeric_series(merged_col(m, col), 0).v,
                   _to_numeric_series(merged_prev_col(m, col), 0).v))

compute_discrete_gameweek_stats(current, prev) ==
    LET merged == merge_left(current, prev_small(prev))
    IN [cols |-> out_cols,
        rows |-> [j \in 1..Len(merged) |->
                    [c \in out_cols |->
                       IF c \in CUMULATIVE_COLS THEN discrete_cell(merged[j], c)
                       ELSE IF c \in DOMAIN merged[j].left THEN merged[j].left[c]
                       ELSE NA]]]

----------------------------------------------------------------------------
(* backfill_last_gw_discrete_from_element_summary *)

Raise == [raised |-> TRUE, history |-> <<>>]

\* fetch_element_summary: the endpoint answers with the player's match
\* history, or the request raises (transport error, timeout, bad status, bad
\* JSON); which of the two is decided request by request.
fetch_element_summary(s, pid, raises) ==
    IF raises THEN Raise
    ELSE [raised |-> FALSE,
          history |-> SelectSeq(s.entries, LAMBDA h : h["element"] = Num(pid))]

\* int(h.get("round", -1)) raises on None and on text that is no integer
\* literal: "x", and also "2.0".
round_raises(h) ==
    "round" \in DOMAIN h /\ h["round"].k \notin {"num", "str"}

round_of(h) == IF "round" \in DOMAIN h THEN h["round"].v ELSE -1

\* gw_rows without the filter on the round
gw_rows_allrounds(history, gw) == history

\* [h for h in history if int(h.get("round", -1)) == int(last_gw)]
gw_rows(history, gw) == SelectSeq(history, LAMBDA h : round_of(h) = gw)

\* float(pd.to_numeric(h.get(k, 0), errors="coerce") or 0.0): a missing key
\* is 0; NaN is truthy, so an unparseable value stays NaN.
hist_term(h, k) == IF k \in DOMAIN h THEN pd_to_numeric(h[k]) ELSE Num(0)

\* agg[k] += term: NaN absorbs.
add_float(a, b) == IF a = NA \/ b = NA THEN NA ELSE Num(a.v + b.v)

RECURSIVE sum_field(_, _)
sum_field(rows, k) ==
    IF rows = <<>> THEN Num(0)
    ELSE add_float(hist_term(Head(rows), k), sum_field(Tail(rows), k))

zero_agg == [k \in hist_fields |-> Num(0)]

\* The try block raises for this answer: the request raised, or a round of
\* the history is no integer.
failed(resp) ==
    \/ resp.raised
    \/ \E j \in 1..Len(resp.history) : round_raises(resp.history[j])

\* The body of the try block and its except branch, for one answer.
player_result(resp, gw) ==
    IF failed(resp) THEN zero_agg
    ELSE [k \in hist_fields |-> sum_field(gw_rows(resp.history, gw), k)]

\* results[pid] = agg: a later visit of the same id overwrites its result
put(res, pid, agg) ==
    [p \in DOMAIN res \cup {pid} |-> IF p = pid THEN agg ELSE res[p]]

\* rest_after with the try around the loop: the first failure ends the loop
rest_after_abort(ids, resp) == IF failed(resp) THEN <<>> ELSE Tail(ids)

\* for i, pid in enumerate(ids, start=1): the try/except is inside the loop,
\* so the loop goes on to the remaining ids whatever the answer was.
rest_after(ids, resp) == Tail(ids)

\* base_players["id"].dropna().astype(int).tolist()
ids_of(base_players) ==
    LET kept == SelectSeq(base_players.rows, LAMBDA r : r["id"] # NA)
    IN [j \in 1..Len(kept) |-> kept[j]["id"].v]

\* results.get(int(x), {}).get(k, 0.0) if pd.notna(x) else 0.0
lookup(res, x, k) ==
    IF x = NA THEN Num(0)
    ELSE IF x.v \in DOMAIN res THEN res[x.v][k] ELSE Num(0)

\* the base identity dataframe
base_players_of(b, gw) ==
    SetGw(_ensure_columns(DataFrame(b.elements), ID_COLS \cup {"gw"}), gw)

\* the table built after the loop from base_players and results
backfill_table(base_players, res) ==
    [cols |-> out_cols,
     rows |-> [j \in 1..Len(base_players.rows) |->
                 [c \in out_cols |->
                    IF c \in hist_fields
                    THEN _to_numeric_series(
                             lookup(res, base_players.rows[j]["id"], c), 0)
                    ELSE IF c \in CUMULATIVE_COLS THEN Num(0)
                    ELSE IF c \in base_players.cols THEN base_players.rows[j][c]
                    ELSE NA]]]

\* backfill_last_gw_discrete_from_element_summary up to its loop
backfill_begin(b, gw) ==
    /\ todo' = ids_of(base_players_of(b, gw))
    /\ results' = <<>>
    /\ answers' = <<>>
    /\ requests' = 0

\* A pass of the loop begins: session.get is called for the next id and
\* blocks until the endpoint answers or the timeout raises.
backfill_issue ==
    /\ todo # <<>>
    /\ requests' = requests + 1
    /\ UNCHANGED loop

\* The pass ends: the request returns or raises, the try block or its
\* except branch sets results[pid], and the loop enters the time.sleep
\* that follows every pass, the last one too.
backfill_answer(gw) ==
    /\ \E raises \in BOOLEAN :
         LET resp == fetch_element_summary(summary, Head(todo), raises)
         IN /\ results' = put(results, Head(todo), player_result(resp, gw))
            /\ answers' = Append(answers, [pid |-> Head(todo), raised |-> raises])
            /\ todo' = rest_after(todo, resp)
    /\ UNCHANGED requests

\* the loop waits: inside a blocking request, or in the sleep after a pass
backfill_waits(inside_request) == inside_request \/ answers # <<>>

----------------------------------------------------------------------------
(* extract_teams_df, extract_players_df *)

get(r, key) == IF key \in DOMAIN r THEN r[key] ELSE NA

extract_teams_df(b) ==
    DataFrame([j \in 1..Len(b.teams) |-> [team_id |-> get(b.teams[j], "id")]])

extract_players_df(b) ==
    DataFrame([j \in 1..Len(b.elements) |->
                 [id |-> get(b.elements[j], "id"),
                  web_name |-> get(b.elements[j], "web_name"),
                  now_cost |-> get(b.elements[j], "now_cost"),
                  minutes |-> get(b.elements[j], "minutes"),
                  status |-> get(b.elements[j], "status")]])

----------------------------------------------------------------------------
(* Inputs *)

SeqsUpTo(S, n) == UNION {[1..m -> S] : m \in 0..n}

NoSummary == [entries |-> <<>>]
NoBootstrap == [events |-> <<>>, teams |-> <<>>, elements |-> <<>>]
NoFiles == [g \in 0..MaxGW |-> NoFile]

\* A raw player record of bootstrap["elements"] with every modelled key.
FullRec(id, cum, cost) ==
    [id |-> Num(id), web_name |-> TXT, status |-> TXT, now_cost |-> cost,
     total_points |-> Num(1), minutes |-> cum, goals_scored |-> Num(0)]

Restrict(r, keys) == [c \in DOMAIN r \cap keys |-> r[c]]

\* One history entry of the element-summary endpoint.
Entry(pid, round, minutes) ==
    [element |-> Num(pid), round |-> round, minutes |-> minutes,
     goals_scored |-> Num(1)]

\* The variables a specification does not use.
Idle ==
    /\ teams_csv = NoFile /\ players_csv = NoFile /\ cumulative_csv = NoFiles
    /\ discrete_csv = NoFiles /\ last_gw_csv = NoFile
    /\ runs = 0 /\ path = "none" /\ requests = 0
    /\ todo = <<>> /\ results = <<>> /\ answers = <<>>

----------------------------------------------------------------------------
(* SpecGW: get_last_completed_gameweek applied to a drawn round schedule *)

Events == [id : 1..MaxGW, finished : BOOLEAN, data_checked : BOOLEAN]

InitGW ==
    /\ pc = "input"
    /\ \E ev \in SeqsUpTo(Events, MaxEvents) :
          bootstrap = [events |-> ev, teams |-> <<>>, elements |-> <<>>]
    /\ summary = NoSummary /\ backfill = TRUE /\ last_gw = 0
    /\ current_snap = EmptyDF /\ prev_snap = EmptyDF /\ discrete = EmptyDF
    /\ Idle

ApplyGW ==
    /\ pc = "input"
    /\ pc' = "done"
    /\ last_gw' = get_last_completed_gameweek(bootstrap)
    /\ UNCHANGED <<bootstrap, summary, backfill, current_snap, prev_snap,
                   discrete, teams_csv, players_csv, cumulative_csv,
                   discrete_csv, last_gw_csv, runs, path, requests, loop>>

SpecGW == InitGW /\ [][ApplyGW]_vars

----------------------------------------------------------------------------
(* SpecBuild: build_cumulative_playerstats_snapshot applied to drawn raw   *)
(* player records, each holding one of KeySets of the keys.                *)

AllKeys == ID_COLS \cup SNAPSHOT_COLS \cup CUMULATIVE_COLS

KeySets ==
    {AllKeys, {}, ID_COLS, AllKeys \ CUMULATIVE_COLS, AllKeys \ SNAPSHOT_COLS,
     AllKeys \ {"minutes"}, {"minutes"}, AllKeys \ {"id"}}

\* the forms a raw value takes: a number, numeric text, other text, null
RawForms == {<<Num(1), Num(5)>>, <<StrFloat(MaxVal), StrOf(5)>>, <<TXT, TXT>>, <<NA, NA>>}

RawRecords ==
    {Restrict(FullRec(1, f[1], f[2]), ks) : f \in RawForms, ks \in KeySets}

InitBuild ==
    /\ pc = "input"
    /\ \E el \in SeqsUpTo(RawRecords, MaxRows) :
          bootstrap = [events |-> <<>>, teams |-> <<>>, elements |-> el]
    /\ last_gw \in 1..MaxGW
    /\ summary = NoSummary /\ backfill = TRUE
    /\ current_snap = EmptyDF /\ prev_snap = EmptyDF /\ discrete = EmptyDF
    /\ Idle

ApplyBuild ==
    /\ pc = "input"
    /\ pc' = "done"
    /\ current_snap' = build_cumulative_playerstats_snapshot(bootstrap, last_gw)
    /\ UNCHANGED <<bootstrap, summary, backfill, last_gw, prev_snap,
                   discrete, teams_csv, players_csv, cumulative_csv,
                   discrete_csv, last_gw_csv, runs, path, requests, loop>>

SpecBuild == InitBuild /\ [][ApplyBuild]_vars

----------------------------------------------------------------------------
(* SpecDelta: compute_discrete_gameweek_stats applied to a snapshot the    *)
(* builder returns and a drawn previous snapshot (as read from its file:   *)
(* possibly without some cumulative columns, with empty cells, without     *)
(* some players).                                                          *)

CumVals == {Num(n) : n \in -1..MaxVal}

\* the players of the current payload, in id order: absent, or present with
\* a cumulative value
Rosters == {f \in [PlayerIds -> CumVals \cup {NA}] : \E p \in PlayerIds : f[p] # NA}

ElementsOf(f) ==
    Concat([p \in 1..Cardinality(PlayerIds) |->
              IF f[p] = NA THEN <<>> ELSE <<FullRec(p, f[p], StrOf(5))>>])

PrevColSets ==
    {{"id"} \cup cs : cs \in {CUMULATIVE_COLS, CUMULATIVE_COLS \ {"minutes"},
                              {"minutes"}, {}}}

PrevRow(id, cum) ==
    [id |-> Num(id), total_points |-> Num(1), minutes |-> cum,
     goals_scored |-> Num(0)]

PrevSnapshots ==
    {[cols |-> cs,
      rows |-> [j \in 1..Len(rs) |-> Restrict(PrevRow(rs[j][1], rs[j][2]), cs)]] :
        cs \in PrevColSets,
        rs \in SeqsUpTo(PlayerIds \X (CumVals \cup {NA}), MaxRows)}

InitDelta ==
    /\ pc = "input"
    /\ bootstrap = NoBootstrap
    /\ last_gw = MaxGW
    /\ \E f \in Rosters :
          current_snap = build_cumulative_playerstats_snapshot(
                             [events |-> <<>>, teams |-> <<>>,
                              elements |-> ElementsOf(f)], MaxGW)
    /\ prev_snap \in PrevSnapshots
    /\ summary = NoSummary /\ backfill = TRUE /\ discrete = EmptyDF
    /\ Idle

ApplyDelta ==
    /\ pc = "input"
    /\ pc' = "done"
    /\ discrete' = compute_discrete_gameweek_stats(current_snap, prev_snap)
    /\ UNCHANGED <<bootstrap, summary, backfill, last_gw, current_snap,
                   prev_snap, teams_csv, players_csv, cumulative_csv,
                   discrete_csv, last_gw_csv, runs, path, requests, loop>>

SpecDelta == InitDelta /\ [][ApplyDelta]_vars

----------------------------------------------------------------------------
(* SpecBackfill: backfill_last_gw_discrete_from_element_summary called on *)
(* a drawn roster, with a drawn state of the element-summary endpoint.     *)
(* The call advances request by request: between two requests it waits     *)
(* (the blocking request, time.sleep), and an interrupt there leaves it    *)
(* without a result.                                                       *)

HistRounds == {1, 2}
HistVals == {Num(1), StrFloat(2), TXT}

\* rounds that are no plain number: "1" (int() accepts it), "1.0", "x" and
\* None (int() raises)
OddRounds == {StrOf(1), StrFloat(1), TXT, NA}

\* player 1's entries: both rounds, every form of value in round 1, a round
\* in every form, no round; player 2's are plain
HistEntries ==
    {Entry(1, Num(1), m) : m \in HistVals}
    \cup {Entry(p, Num(r), Num(1)) : p \in PlayerIds, r \in HistRounds}
    \cup {Entry(1, r, Num(1)) : r \in OddRounds}
    \cup {Restrict(Entry(1, Num(1), Num(1)), {"element", "minutes", "goals_scored"})}

RosterRecords ==
    {FullRec(p, Num(1), StrOf(5)) : p \in PlayerIds}
    \cup {Restrict(FullRec(1, Num(1), StrOf(5)), AllKeys \ {"id"})}

InitBackfill ==
    /\ pc = "input"
    /\ \E el \in SeqsUpTo(RosterRecords, MaxRows) \ {<<>>} :
          bootstrap = [events |-> <<>>, teams |-> <<>>, elements |-> el]
    /\ \E en \in SeqsUpTo(HistEntries, MaxHist) : summary = [entries |-> en]
    /\ last_gw = 1
    /\ backfill = TRUE
    /\ current_snap = EmptyDF /\ prev_snap = EmptyDF /\ discrete = EmptyDF
    /\ Idle

\* the call, up to the loop
BackfillBegin ==
    /\ pc = "input"
    /\ pc' = "loop"
    /\ backfill_begin(bootstrap, last_gw)
    /\ UNCHANGED <<bootstrap, summary, backfill, last_gw, current_snap,
                   prev_snap, discrete, teams_csv, players_csv, cumulative_csv,
                   discrete_csv, last_gw_csv, runs, path>>

\* a pass begins: the request is issued and blocks
BackfillIssue ==
    /\ pc = "loop"
    /\ pc' = "request"
    /\ backfill_issue
    /\ UNCHANGED <<bootstrap, summary, backfill, last_gw, current_snap,
                   prev_snap, discrete, teams_csv, players_csv, cumulative_csv,
                   discrete_csv, last_gw_csv, runs, path>>

\* the pass ends and the loop sleeps
BackfillAnswer ==
    /\ pc = "request"
    /\ pc' = "loop"
    /\ backfill_answer(last_gw)
    /\ UNCHANGED <<bootstrap, summary, backfill, last_gw, current_snap,
                   prev_snap, discrete, teams_csv, players_csv, cumulative_csv,
                   discrete_csv, last_gw_csv, runs, path>>

\* KeyboardInterrupt while the loop waits, in a request or in the sleep
\* after a pass (the last one too): it is no Exception, the except branch
\* does not catch it, and the call ends without a table
BackfillInterrupted ==
    /\ pc \in {"loop", "request"}
    /\ backfill_waits(pc = "request")
    /\ pc' = "interrupted"
    /\ UNCHANGED <<bootstrap, summary, backfill, last_gw, current_snap,
                   prev_snap, discrete, teams_csv, players_csv, cumulative_csv,
                   discrete_csv, last_gw_csv, runs, path, requests, loop>>

\* after the loop: the table is built and returned
BackfillReturn ==
    /\ pc = "loop"
    /\ todo = <<>>
    /\ pc' = "done"
    /\ discrete' = backfill_table(base_players_of(bootstrap, last_gw), results)
    /\ UNCHANGED <<bootstrap, summary, backfill, last_gw, current_snap,
                   prev_snap, teams_csv, players_csv, cumulative_csv,
                   discrete_csv, last_gw_csv, runs, path, requests, loop>>

NextBackfill ==
    \/ BackfillBegin \/ BackfillIssue \/ BackfillAnswer
    \/ BackfillInterrupted \/ BackfillReturn

SpecBackfill == InitBackfill /\ [][NextBackfill]_vars

----------------------------------------------------------------------------
(* Spec: a sequence of run() calls on one output directory.  A run that    *)
(* does not wait is one action, on a payload that takes it down that path; *)
(* a run that backfills writes its first three files, then advances        *)
(* request by request, and writes the discrete files when the loop is      *)
(* over, unless an interrupt ends it first.                                *)

\* round schedules in id order, completed up to round g (none when g = 0)
RunEvents ==
    {[j \in 1..MaxGW |-> [id |-> j, finished |-> j <= g, data_checked |-> j <= g]] :
        g \in 0..MaxGW}

RunTeams == << [id |-> Num(1)] >>

RunVals == {Num(1), StrOf(2)}

\* player 1 absent or with one of RunVals, player 2 absent or with 1; or one
\* record without any key
RunElements ==
    {ElementsOf(f) : f \in {g \in [PlayerIds -> RunVals \cup {NA}] : g[2] # StrOf(2)}}
    \cup {<< <<>> >>}

RunBootstraps ==
    {[events |-> ev, teams |-> RunTeams, elements |-> el] :
        ev \in RunEvents, el \in RunElements}

RunSummaries ==
    {[entries |-> en] :
        en \in {<<>>, <<Entry(1, Num(1), Num(1)), Entry(1, Num(1), StrFloat(2)),
                        Entry(2, Num(2), Num(1)), Entry(1, Num(2), Num(1))>>,
                 <<Entry(1, Num(1), Num(1)), Entry(1, StrFloat(1), Num(1))>>}}

Init ==
    /\ pc = "idle"
    /\ bootstrap = NoBootstrap /\ summary = NoSummary
    /\ backfill \in BOOLEAN
    /\ last_gw = 0
    /\ current_snap = EmptyDF /\ prev_snap = EmptyDF /\ discrete = EmptyDF
    /\ Idle

\* choose_path testing the fallback flag before the previous file
choose_path_flag_first(prev_exists, flag) ==
    IF flag THEN "backfill" ELSE IF prev_exists THEN "delta" ELSE "verbatim"

\* The three-way branch of run(), lines 480-491.
choose_path(prev_exists, flag) ==
    IF prev_exists THEN "delta" ELSE IF flag THEN "backfill" ELSE "verbatim"

\* run() may be called: no run is under way, and the model's bound on runs
can_run == pc = "idle" /\ runs < MaxRuns

\* run() up to and including the writes of teams.csv and players.csv
run_start(b, gw) ==
    /\ backfill' = backfill
    /\ runs' = runs + 1
    /\ bootstrap' = b
    /\ last_gw' = gw
    /\ teams_csv' = to_csv(extract_teams_df(b))
    /\ players_csv' = to_csv(extract_players_df(b))

\* prev_path.exists(): the file of gw - 1, which the write of gw's file just
\* before neither creates nor removes
prev_exists(gw) == cumulative_csv[gw - 1].exists

\* run(): the cumulative snapshot is built and written
write_snapshot(gw, snap) ==
    /\ current_snap' = snap
    /\ cumulative_csv' = [cumulative_csv EXCEPT ![gw] = to_csv(snap)]

\* run(): the discrete table is written to its two files, and run() returns
write_discrete(gw, d, p) ==
    /\ discrete' = d
    /\ discrete_csv' = [discrete_csv EXCEPT ![gw] = to_csv(d)]
    /\ last_gw_csv' = to_csv(d)
    /\ path' = p

\* run() from the write of the cumulative snapshot to its end, when it
\* issues no request
run_finish(gw, snap, d, p) ==
    /\ write_snapshot(gw, snap)
    /\ write_discrete(gw, d, p)
    /\ requests' = 0
    /\ UNCHANGED <<pc, loop>>

\* RunFetchFailed with the write_text("") of teams.csv ahead of the fetch
RunFetchFailed_writes_first ==
    /\ can_run
    /\ runs' = runs + 1
    /\ path' = "fetch_failed"
    /\ requests' = 0
    /\ teams_csv' = to_csv(EmptyDF)
    /\ UNCHANGED <<pc, bootstrap, summary, backfill, last_gw, current_snap,
                   prev_snap, discrete, players_csv, cumulative_csv,
                   discrete_csv, last_gw_csv, loop>>

\* run() when fetch_bootstrap raises (request error, raise_for_status,
\* r.json()): the exception leaves run() at its first statement.
RunFetchFailed ==
    /\ can_run
    /\ runs' = runs + 1
    /\ path' = "fetch_failed"
    /\ requests' = 0
    /\ UNCHANGED <<pc, bootstrap, summary, backfill, last_gw, current_snap,
                   prev_snap, discrete, teams_csv, players_csv, cumulative_csv,
                   discrete_csv, last_gw_csv, loop>>

\* run() when the snapshot built from the payload is empty: logged, return
RunEmpty ==
    /\ can_run
    /\ \E b \in RunBootstraps :
        LET gw == get_last_completed_gameweek(b)
            snap == build_cumulative_playerstats_snapshot(b, gw)
        IN /\ empty(snap)
           /\ run_start(b, gw)
           /\ current_snap' = snap
           /\ path' = "empty"
           /\ requests' = 0
           /\ UNCHANGED <<pc, summary, prev_snap, discrete, cumulative_csv,
                          discrete_csv, last_gw_csv, loop>>

\* run() when the previous gameweek's snapshot file exists
RunDelta ==
    /\ can_run
    /\ \E b \in RunBootstraps :
        LET gw == get_last_completed_gameweek(b)
            snap == build_cumulative_playerstats_snapshot(b, gw)
            prev == read_csv(cumulative_csv[gw - 1])
        IN /\ ~empty(snap)
           /\ choose_path(prev_exists(gw), backfill) = "delta"
           /\ run_start(b, gw)
           /\ prev_snap' = prev
           /\ run_finish(gw, snap, compute_discrete_gameweek_stats(snap, prev),
                         "delta")
           /\ UNCHANGED summary

\* the backfill's locals are gone when run() is left
loop_left == todo' = <<>> /\ results' = <<>> /\ answers' = <<>>

\* run() when it does not exist and self.backfill is set, up to the loop of
\* the backfill: teams.csv, players.csv and the cumulative snapshot are
\* written
RunBackfillStart ==
    /\ can_run
    /\ \E b \in RunBootstraps :
        LET gw == get_last_completed_gameweek(b)
            snap == build_cumulative_playerstats_snapshot(b, gw)
        IN /\ ~empty(snap)
           /\ choose_path(prev_exists(gw), backfill) = "backfill"
           /\ run_start(b, gw)
           /\ write_snapshot(gw, snap)
           /\ backfill_begin(b, gw)
           /\ summary' \in RunSummaries
           /\ pc' = "backfilling"
           /\ path' = "running"
           /\ UNCHANGED <<prev_snap, discrete, discrete_csv, last_gw_csv>>

\* a pass of the backfill's loop begins: the request is issued and blocks
RunBackfillIssue ==
    /\ pc = "backfilling"
    /\ pc' = "requesting"
    /\ backfill_issue
    /\ UNCHANGED <<bootstrap, summary, backfill, last_gw, current_snap,
                   prev_snap, discrete, teams_csv, players_csv, cumulative_csv,
                   discrete_csv, last_gw_csv, runs, path>>

\* the pass ends and the loop sleeps
RunBackfillAnswer ==
    /\ pc = "requesting"
    /\ pc' = "backfilling"
    /\ backfill_answer(last_gw)
    /\ UNCHANGED <<bootstrap, summary, backfill, last_gw, current_snap,
                   prev_snap, discrete, teams_csv, players_csv, cumulative_csv,
                   discrete_csv, last_gw_csv, runs, path>>

\* KeyboardInterrupt while the loop waits, in a request or in the sleep
\* after a pass (the last one too): run() is left with the discrete files
\* unwritten
RunBackfillInterrupted ==
    /\ pc \in {"backfilling", "requesting"}
    /\ backfill_waits(pc = "requesting")
    /\ pc' = "idle"
    /\ path' = "interrupted"
    /\ loop_left
    /\ UNCHANGED <<bootstrap, summary, backfill, last_gw, current_snap,
                   prev_snap, discrete, teams_csv, players_csv, cumulative_csv,
                   discrete_csv, last_gw_csv, runs, requests>>

\* the loop is over: the backfill returns its table and run() writes it
RunBackfillFinish ==
    /\ pc = "backfilling"
    /\ todo = <<>>
    /\ pc' = "idle"
    /\ write_discrete(last_gw,
                      backfill_table(base_players_of(bootstrap, last_gw), results),
                      "backfill")
    /\ loop_left
    /\ UNCHANGED <<bootstrap, summary, backfill, last_gw, current_snap,
                   prev_snap, teams_csv, players_csv, cumulative_csv, runs,
                   requests>>

\* run() when it does not exist and self.backfill is not set
RunVerbatim ==
    /\ can_run
    /\ \E b \in RunBootstraps :
        LET gw == get_last_completed_gameweek(b)
            snap == build_cumulative_playerstats_snapshot(b, gw)
        IN /\ ~empty(snap)
           /\ choose_path(prev_exists(gw), backfill) = "verbatim"
           /\ run_start(b, gw)
           /\ run_finish(gw, snap, snap, "verbatim")
           /\ UNCHANGED <<summary, prev_snap>>

Next ==
    \/ RunFetchFailed \/ RunEmpty \/ RunDelta \/ RunVerbatim
    \/ RunBackfillStart \/ RunBackfillIssue \/ RunBackfillAnswer
    \/ RunBackfillInterrupted \/ RunBackfillFinish

Spec == Init /\ [][Next]_vars

----------------------------------------------------------------------------
(* Claims *)

\* the number a raw value stands for, 0 when it stands for none
NumberOrZero(x) == IF x.k \in {"num", "str", "fstr"} THEN x.v ELSE 0

\* the previous cumulative values of a player: those of its rows in the
\* previous snapshot, 0 when it has none or the snapshot lacks the field
PrevVals(id, col) ==
    LET matching == {j \in 1..Len(prev_snap.rows) : prev_snap.rows[j]["id"] = id}
    IN IF col \notin prev_snap.cols \/ matching = {} THEN {0}
       ELSE {NumberOrZero(prev_snap.rows[j][col]) : j \in matching}

\* the discrete values the output holds for a player
OutVals(id, col) ==
    {discrete.rows[j][col] : j \in {n \in 1..Len(discrete.rows) :
                                      discrete.rows[n]["id"] = id}}

\* C1: for every player of the current snapshot and every cumulative field,
\* with prev the player's previous value (0 when the player or the field is
\* absent from the previous snapshot): if current >= prev, the discrete value
\* is exactly current - prev (so it is current for an absent player).
C1_DeltaWhenGrowing ==
    pc = "done" =>
      \A j \in 1..Len(current_snap.rows), col \in CUMULATIVE_COLS :
        LET r == current_snap.rows[j]
            prevs == PrevVals(r["id"], col)
        IN /\ \A p \in prevs :
                r[col].v >= p => Num(r[col].v - p) \in OutVals(r["id"], col)
           /\ (\A p \in prevs : r[col].v >= p)
                => OutVals(r["id"], col) = {Num(r[col].v - p) : p \in prevs}

\* a player in both snapshots whose minutes grew from 1 to 2 has 1, and a
\* player absent from the previous snapshot keeps its current 2
C1_Witness ==
    /\ pc = "done"
    /\ Len(current_snap.rows) = 2
    /\ current_snap.rows[1]["minutes"] = Num(2)
    /\ current_snap.rows[2]["minutes"] = Num(2)
    /\ "minutes" \in prev_snap.cols
    /\ Len(prev_snap.rows) = 1
    /\ prev_snap.rows[1]["id"] = Num(1)
    /\ prev_snap.rows[1]["minutes"] = Num(1)
    /\ discrete.rows[1]["minutes"] = Num(1)
    /\ discrete.rows[2]["minutes"] = Num(2)

\* C2: where the current value is strictly below the previous one, the
\* discrete value is the current value itself, and no discrete value is
\* below min(current, 0).
C2_NegativeDeltaKeepsCurrent ==
    pc = "done" =>
      \A j \in 1..Len(current_snap.rows), col \in CUMULATIVE_COLS :
        LET r == current_snap.rows[j]
            prevs == PrevVals(r["id"], col)
            floor == IF r[col].v < 0 THEN r[col].v ELSE 0
        IN /\ \A p \in prevs : r[col].v < p => r[col] \in OutVals(r["id"], col)
           /\ (\A p \in prevs : r[col].v < p) => OutVals(r["id"], col) = {r[col]}
           /\ \A o \in OutVals(r["id"], col) : o.k = "num" /\ o.v >= floor

\* minutes fell from 2 to 1: the discrete value is 1, not -1
C2_Witness ==
    /\ pc = "done"
    /\ current_snap.rows[1]["minutes"] = Num(1)
    /\ "minutes" \in prev_snap.cols
    /\ Len(prev_snap.rows) = 1
    /\ prev_snap.rows[1]["id"] = current_snap.rows[1]["id"]
    /\ prev_snap.rows[1]["minutes"] = Num(2)
    /\ discrete.rows[1]["minutes"] = Num(1)

\* an entry of the endpoint that is a match of player pid in round gw
IsMatch(h, pid, gw) ==
    h["element"] = Num(pid) /\ "round" \in DOMAIN h /\ h["round"].v = gw

RECURSIVE MatchSum(_, _, _, _)
\* the sum of field k over the entries of player pid in round gw
MatchSum(entries, pid, gw, k) ==
    IF entries = <<>> THEN 0
    ELSE (IF IsMatch(Head(entries), pid, gw) /\ k \in DOMAIN Head(entries)
          THEN NumberOrZero(Head(entries)[k]) ELSE 0)
         + MatchSum(Tail(entries), pid, gw, k)

\* the requests made so far for player pid
RequestsOf(pid) == {n \in 1..Len(answers) : answers[n].pid = pid}

\* the history retrieval of player pid succeeded: its request (the last one,
\* when the roster lists the player twice) did not raise
Retrieved(pid) ==
    /\ RequestsOf(pid) # {}
    /\ ~answers[CHOOSE n \in RequestsOf(pid) :
                   \A m \in RequestsOf(pid) : m <= n].raised

\* the history of player pid is well formed: every round is an integer (or
\* absent), and every value of field k in the entries of round gw is a number
Summable(pid, gw, k) ==
    \A n \in 1..Len(summary.entries) :
      LET h == summary.entries[n]
      IN h["element"] = Num(pid) =>
           /\ "round" \in DOMAIN h => h["round"].k \in {"num", "str"}
           /\ (IsMatch(h, pid, gw) /\ k \in DOMAIN h)
                 => h[k].k \in {"num", "str", "fstr"}

\* C3: for every player whose history retrieval succeeds and every
\* aggregatable field (the history being well formed), the discrete value is
\* the sum of the field over the player's entries of the target round and
\* no others: 0 when there are none, the sum of both in a double gameweek.
C3_SumOfRoundEntries ==
    pc = "done" =>
      \A j \in 1..Len(bootstrap.elements), k \in hist_fields :
        LET id == get(bootstrap.elements[j], "id")
        IN (id # NA /\ Retrieved(id.v) /\ Summable(id.v, last_gw, k))
             => discrete.rows[j][k] =
                  Num(MatchSum(summary.entries, id.v, last_gw, k))

\* a double gameweek: two entries of the target round, minutes 1 and "2.0"
C3_Witness ==
    /\ pc = "done"
    /\ Len(summary.entries) = 2
    /\ IsMatch(summary.entries[1], 1, last_gw)
    /\ IsMatch(summary.entries[2], 1, last_gw)
    /\ summary.entries[1]["round"] = Num(1)
    /\ summary.entries[2]["round"] = Num(1)
    /\ summary.entries[1]["minutes"] = Num(1)
    /\ summary.entries[2]["minutes"] = StrFloat(2)
    /\ Retrieved(1)
    /\ get(bootstrap.elements[1], "id") = Num(1)
    /\ discrete.rows[1]["minutes"] = Num(3)
    /\ discrete.rows[1]["goals_scored"] = Num(2)

\* C4: a failed history request is not fatal: the loop goes on to every
\* remaining player and the call returns one row per roster player; the
\* failing player's aggregatable fields are all 0, and every other player
\* has the value its own answer gives, whatever the other requests did.
C4_FailureIsolated ==
    pc = "done" =>
      /\ Len(discrete.rows) = Len(bootstrap.elements)
      /\ requests = Cardinality({j \in 1..Len(bootstrap.elements) :
                                    get(bootstrap.elements[j], "id") # NA})
      /\ \A j \in 1..Len(bootstrap.elements) :
           LET id == get(bootstrap.elements[j], "id")
           IN /\ discrete.rows[j]["id"] = id
              /\ \A k \in hist_fields :
                   IF id = NA \/ ~Retrieved(id.v)
                   THEN discrete.rows[j][k] = Num(0)
                   ELSE discrete.rows[j][k] =
                          _to_numeric_series(
                              player_result(
                                  fetch_element_summary(summary, id.v, FALSE),
                                  last_gw)[k], 0)

\* the first player's request fails although the endpoint holds a match of
\* it; the second player, requested after it, still gets its minutes
C4_Witness ==
    /\ pc = "done"
    /\ Len(bootstrap.elements) = 2
    /\ get(bootstrap.elements[1], "id") = Num(1)
    /\ get(bootstrap.elements[2], "id") = Num(2)
    /\ answers = << [pid |-> 1, raised |-> TRUE], [pid |-> 2, raised |-> FALSE] >>
    /\ \E n \in 1..Len(summary.entries) : IsMatch(summary.entries[n], 1, last_gw)
    /\ discrete.rows[1]["minutes"] = Num(0)
    /\ discrete.rows[1]["goals_scored"] = Num(0)
    /\ discrete.rows[2]["minutes"] = Num(1)

\* C5: a run that reaches the discrete-stats step takes exactly one of three
\* paths: the delta engine, without any per-player request, if the snapshot
\* file of gameweek - 1 exists, whatever the fallback flag; else the history
\* aggregator if the flag is set; else the current snapshot verbatim.
C5_ThreeWayBranch ==
    path \in {"delta", "backfill", "verbatim"} =>
      /\ cumulative_csv[last_gw - 1].exists
           => /\ path = "delta"
              /\ requests = 0
              /\ prev_snap = cumulative_csv[last_gw - 1].data
              /\ \A j \in 1..Len(discrete.rows) : discrete.rows[j]["status"] = TXT
      /\ (~cumulative_csv[last_gw - 1].exists /\ backfill)
           => /\ path = "backfill"
              /\ requests = Len(bootstrap.elements)
              /\ \A j \in 1..Len(discrete.rows) : discrete.rows[j]["status"] = NA
      /\ (~cumulative_csv[last_gw - 1].exists /\ ~backfill)
           => /\ path = "verbatim"
              /\ requests = 0
              /\ discrete = current_snap
      /\ discrete_csv[last_gw] = [exists |-> TRUE, data |-> discrete]
      /\ last_gw_csv = [exists |-> TRUE, data |-> discrete]
      /\ cumulative_csv[last_gw] = [exists |-> TRUE, data |-> current_snap]

\* the previous file exists and the fallback flag is set: the run still
\* differences against the file and issues no request
C5_Witness ==
    /\ path = "delta"
    /\ backfill
    /\ last_gw = 2
    /\ cumulative_csv[1].exists
    /\ requests = 0
    /\ Len(discrete.rows) = 1
    /\ prev_snap.rows[1]["minutes"] = Num(1)
    /\ current_snap.rows[1]["minutes"] = Num(2)
    /\ discrete.rows[1]["minutes"] = Num(1)

\* C6: a run whose bulk fetch succeeds with an empty player list creates or
\* modifies no output file.
C6_EmptyRosterWritesNothing ==
    [][(path' = "empty" /\ runs' = runs + 1) => files' = files]_vars

\* C7: once the cumulative snapshot file of a gameweek exists, no later run
\* changes its contents.
C7_SnapshotWrittenOnce ==
    [][\A g \in 0..MaxGW :
         cumulative_csv[g].exists => cumulative_csv'[g] = cumulative_csv[g]]_vars

\* the rounds of the schedule that are finished and data-checked
Completed == {j \in 1..Len(bootstrap.events) :
                bootstrap.events[j].finished /\ bootstrap.events[j].data_checked}

MaxOf(S) == CHOOSE m \in S : \A n \in S : n <= m

\* C8: for every schedule with a completed round, the result is
\* the highest id among the completed rounds.
C8_HighestCompletedId ==
    (pc = "done" /\ Completed # {})
      => last_gw = MaxOf({bootstrap.events[j].id : j \in Completed})

\* C9: a run whose bulk fetch fails leaves every output file as it was and
\* issues no per-player request.
C9_FetchFailureWritesNothing ==
    [][(path' = "fetch_failed" /\ runs' = runs + 1)
         => (files' = files /\ requests' = 0)]_vars

\* a failed run after a run that wrote the files
C9_Witness ==
    /\ path = "fetch_failed"
    /\ runs = 2
    /\ teams_csv.exists /\ players_csv.exists
    /\ cumulative_csv[1].exists /\ discrete_csv[1].exists /\ last_gw_csv.exists

\* what the builder returns for the records of a non-empty table: one row
\* per record with the full schema, cumulative values numbers (0 when
\* missing or unparseable), missing point-in-time values null
FullSnapshot ==
    /\ current_snap.cols = ID_COLS \cup {"gw"} \cup SNAPSHOT_COLS \cup CUMULATIVE_COLS
    /\ Len(current_snap.rows) = Len(bootstrap.elements)
    /\ \A j \in 1..Len(bootstrap.elements) :
         LET raw == bootstrap.elements[j]
             row == current_snap.rows[j]
         IN /\ DOMAIN row = current_snap.cols
            /\ row["gw"] = Num(last_gw)
            /\ \A c \in CUMULATIVE_COLS :
                 row[c] = IF c \in DOMAIN raw /\ raw[c].k \in {"num", "str", "fstr"}
                          THEN Num(raw[c].v) ELSE Num(0)
            /\ \A c \in SNAPSHOT_COLS :
                 (c \notin DOMAIN raw \/ raw[c] = NA) => row[c] = NA
            /\ \A c \in ID_COLS :
                 row[c] = IF c \in DOMAIN raw THEN raw[c] ELSE NA

\* C10 as claimed: for every collection of raw records the table has the
\* full schema.
C10_AlwaysFullSchema == pc = "done" => FullSnapshot

\* C10, amended: for every collection holding a record with at least one
\* field the table has the full schema, missing or unparseable cumulative
\* values are 0 and missing point-in-time values null; for an empty
\* collection, or records without any field, the table is empty, without
\* columns.
C10_FullSchemaUnlessEmpty ==
    pc = "done" =>
      IF \E j \in 1..Len(bootstrap.elements) : DOMAIN bootstrap.elements[j] # {}
      THEN FullSnapshot
      ELSE current_snap = [cols |-> {}, rows |-> <<>>]

\* a record with only its minutes, unparseable, next to a complete record
C10_Witness ==
    /\ pc = "done"
    /\ Len(bootstrap.elements) = 2
    /\ DOMAIN bootstrap.elements[1] = {"minutes"}
    /\ bootstrap.elements[1]["minutes"] = TXT
    /\ DOMAIN bootstrap.elements[2] = AllKeys
    /\ current_snap.rows[1]["minutes"] = Num(0)
    /\ current_snap.rows[1]["total_points"] = Num(0)
    /\ current_snap.rows[1]["now_cost"] = NA
    /\ current_snap.rows[1]["id"] = NA
    /\ current_snap.rows[2]["now_cost"] = Num(5)

\* C11: the delta engine's output has exactly one row per player of the
\* current snapshot, whatever the previous snapshot contains: every current
\* player appears, none more than once, and no player that is only in the
\* previous snapshot appears.
C11_OneRowPerCurrentPlayer ==
    pc = "done" =>
      /\ \A j \in 1..Len(current_snap.rows) :
           Cardinality({n \in 1..Len(discrete.rows) :
                          discrete.rows[n]["id"] = current_snap.rows[j]["id"]}) = 1
      /\ \A n \in 1..Len(discrete.rows) :
           \E j \in 1..Len(current_snap.rows) :
               discrete.rows[n]["id"] = current_snap.rows[j]["id"]

====
